---- MODULE Spec2Model ----
(***************************************************************************)
(* Sharded, resumable speech-segment extraction (corpus_vad.py, silero.py, *)
(* process_output.py, report.py).                                          *)
(*                                                                         *)
(* Times.  The code divides sample indices by 16000 to obtain seconds.     *)
(* Every value "x seconds" is represented here by the integer 16000 * x    *)
(* (a fixed-point number with denominator SAMPLE_RATE), so the division is *)
(* exact; binary floating-point rounding is not modelled.                  *)
(*                                                                         *)
(* Files.  Every file of the data folder is a .wav file, named 1..n in      *)
(* listing order.  A checkpoint file is the sequence of its lines or rows; *)
(* an append adds one element, opening the CSV with mode 'w' empties it.   *)
(* Two calls that share log_root (both were handed an empty list) append   *)
(* to the same sequences.                                                  *)
(*                                                                         *)
(* Four specifications share the module:                                   *)
(*   SpecSplit  split_list applied to a listing and a worker count         *)
(*   SpecMerge  the per-file steps merge -> filter -> emit on one file     *)
(*   SpecReport report.py called on a folder and a CSV file of its own     *)
(*   Spec       the pipeline: planner, worker pool, per-shard extraction,  *)
(*              output merger, report; kill and re-run of the extraction   *)
(*              over the same log root; the output merger called on its    *)
(*              own before a run and again after it                        *)
(***************************************************************************)
EXTENDS Integers, Sequences, FiniteSets, TLC

VARIABLES
    \* ---- split_list (SpecSplit)
    sl_lst,            \* the list handed to split_list
    sl_n,              \* the number of sub-lists asked for
    sl_out,            \* the sub-lists the generator has yielded so far
    \* ---- merge / filter / emit on one file (SpecMerge)
    mpc,               \* "start" | "merged" | "filtered" | "emitted" | "off"
    utterances,        \* the utterances built from the detector's timestamps
    threshold,         \* merge threshold
    min_duration,      \* minimum duration of a kept segment
    merged,            \* result of merge_segments
    cleaned,           \* merged segments that survive the filter
    rows,              \* rows written to the CSV for the file
    \* ---- the pipeline (Spec): inputs of a run
    corpus,            \* os.listdir(data_folder): the .wav files, in listing order
    exclusions,        \* main's exclusions argument: "lists" (readable files),
                       \* "unreadable" (a file open() fails on), "unsupported"
    excl,              \* the filenames read from the exclusion lists
    num_processes,     \* worker count K
    kind,              \* what decoding / detection of each file yields
    \* ---- main process
    mainPc,            \* "start" | "pool" | "joined" | "aborted" | "off"
    run,               \* ordinal of the current pipeline run over the log root
    sub_lists,         \* the shards computed by the planner
    \* ---- one process_wav_files call per shard (data_split = index)
    wpc,               \* "idle" | "ready" | "loop" | "emit" | "done" | "failed"
    log_folder,        \* directory the call writes its checkpoint files to
    processed_files,   \* the processed log as read at start (line 106)
    wav_files,         \* the files the call iterates over (lines 108-111)
    pos,               \* 1-based position of the loop in wav_files
    pending,           \* rows of the current file not yet written
    \* ---- checkpoint files on disk, per directory
    processed_log,
    warning_log,
    error_log,
    csv,
    root_exists,       \* whether the directory log_root exists
    csv_files,         \* the directories that hold a speech_segments.csv
    output,            \* the directory ./output: file name -> lines or rows
    listing,           \* the order in which the file system lists the shard
                       \* directories of log_root (<<>> until first scanned)
    \* ---- output merger and report generator (main process)
    contents,          \* the dict _retrieve_output returns: pattern -> paths
    merger_runs,       \* calls of the output merger that have written ./output
    report,            \* the fields of the Report object after report()
    \* ---- report.py on a folder and a segment table of its own (SpecReport)
    rp_folder,         \* get_audio_duration of each .wav file of the folder
    rp_table,          \* the rows of the CSV file
    \* ---- history
    decoded,           \* files each call has passed to read_audio in this run
    faults,            \* I/O errors injected into writerow so far
    before_kill,       \* per directory: the files that were in the processed
                       \* log, with all their rows in the CSV, when the
                       \* previous run was killed
    interrupts         \* the calls of this run an interrupt has reached

splitVars == <<sl_lst, sl_n, sl_out>>
mergeVars == <<mpc, utterances, threshold, min_duration, merged, cleaned, rows>>
inputVars == <<corpus, exclusions, excl, num_processes, kind>>
mainVars == <<mainPc, run, sub_lists>>
workerVars == <<wpc, log_folder, processed_files, wav_files, pos, pending>>
diskVars == <<processed_log, warning_log, error_log, csv, root_exists, csv_files>>
outVars == <<output, listing, contents, merger_runs, report>>
reportVars == <<rp_folder, rp_table>>
histVars == <<decoded, faults, before_kill, interrupts>>
pipeVars == <<inputVars, mainVars, workerVars, diskVars, outVars, histVars>>
vars == <<splitVars, mergeVars, pipeVars, reportVars>>

----------------------------------------------------------------------------
(* Bounds of the model *)

MaxLen == 5          \* longest list handed to split_list in SpecSplit
MaxShards == 4       \* largest worker count in SpecSplit
MaxSegs == 3         \* most intervals in an enumerated detector output
MaxGap == 2          \* largest silence before an enumerated interval
MaxDur == 2          \* longest enumerated interval
MaxFiles == 3        \* most files in the corpus folder (Spec)
MaxWorkers == 2      \* largest worker count (Spec)
MaxExcl == 1         \* most excluded filenames (Spec)
MaxRuns == 2         \* pipeline runs over the same log root (Spec)
MaxFaults == 1       \* I/O errors injected into writerow (Spec)
MaxMerges == 2       \* calls of the output merger over the same log root (Spec)
MaxFolder == 3       \* most .wav files in the folder given to report.py (SpecReport)
MaxSeconds == 2      \* longest file and longest segment, in seconds (SpecReport)
MaxRows == 2         \* most rows in the CSV given to report.py (SpecReport)
MaxLoad == 4          \* most files times workers (SpecRun)

(* Program constants *)

SAMPLE_RATE == 16000        \* samples per second
DEFAULT_THRESHOLD == 4000   \* 0.250 s
DEFAULT_MIN_DURATION == 8000 \* 0.5 s

----------------------------------------------------------------------------
(* Helpers *)

Min(a, b) == IF a < b THEN a ELSE b

Range(s) == {s[i] : i \in 1..Len(s)}

\* Python's lst[a:b] for 0 <= a <= b <= len(lst)
Slice(lst, a, b) == SubSeq(lst, a + 1, b)

RECURSIVE Concat(_)
Concat(ss) == IF ss = <<>> THEN <<>> ELSE Head(ss) \o Concat(Tail(ss))

----------------------------------------------------------------------------
(* split_list: corpus_vad.py 22-25 *)

\* a split that hands the extra files to the last shards' boundaries wrongly
split_slice_drop(lst, n, i) ==
    LET k == Len(lst) \div n
        m == Len(lst) % n
    IN  Slice(lst, i * k + Min(i, m), (i + 1) * k + Min(i, m))

\* the i-th (0-based) sub-list the generator yields
split_slice(lst, n, i) ==
    LET k == Len(lst) \div n
        m == Len(lst) % n
    IN  Slice(lst, i * k + Min(i, m), (i + 1) * k + Min(i + 1, m))

\* list(split_list(lst, n))
split_list(lst, n) == [j \in 1..n |-> split_slice(lst, n, j - 1)]

----------------------------------------------------------------------------
(* Per-file steps of process_wav_files: silero.py 34-60, 133-157 *)

\* seconds (as a multiple of 1/SAMPLE_RATE) of a sample index: x / 16_000
to_seconds(samples) == (samples * SAMPLE_RATE) \div SAMPLE_RATE

\* line 133-134: the utterance records built from the detector's timestamps
Utterances(timestamps) ==
    [i \in 1..Len(timestamps) |->
        [start |-> to_seconds(timestamps[i].start),
         end |-> to_seconds(timestamps[i].end),
         duration |-> to_seconds(timestamps[i].end - timestamps[i].start)]]

\* a merge test that also joins a gap equal to the threshold
CloserThanOrEqual(next_segment, current_segment, t) ==
    next_segment.start - current_segment.end <= t

\* line 52: the merge test
CloserThan(next_segment, current_segment, t) ==
    next_segment.start - current_segment.end < t

\* a merge loop that joins pairs: the joined segment is emitted at once and
\* is not compared with the segment that follows
RECURSIVE MergeLoopPairwise(_, _, _, _, _)
MergeLoopPairwise(segments, t, i, current_segment, merged_segments) ==
    IF i > Len(segments)
    THEN Append(merged_segments, current_segment)
    ELSE LET next_segment == segments[i]
             joined == [current_segment EXCEPT
                           !.end = next_segment.end,
                           !.duration = next_segment.end - current_segment.start]
         IN  IF CloserThan(next_segment, current_segment, t)
             THEN IF i + 1 > Len(segments)
                  THEN Append(merged_segments, joined)
                  ELSE MergeLoopPairwise(segments, t, i + 2, segments[i + 1],
                           Append(merged_segments, joined))
             ELSE MergeLoopPairwise(segments, t, i + 1, next_segment,
                      Append(merged_segments, current_segment))

\* a merge loop that extends the end of the current segment and leaves its
\* duration as it was
RECURSIVE MergeLoopStaleDuration(_, _, _, _, _)
MergeLoopStaleDuration(segments, t, i, current_segment, merged_segments) ==
    IF i > Len(segments)
    THEN Append(merged_segments, current_segment)
    ELSE LET next_segment == segments[i]
         IN  IF CloserThan(next_segment, current_segment, t)
             THEN MergeLoopStaleDuration(segments, t, i + 1,
                      [current_segment EXCEPT !.end = next_segment.end],
                      merged_segments)
             ELSE MergeLoopStaleDuration(segments, t, i + 1, next_segment,
                      Append(merged_segments, current_segment))

\* lines 51-59: the loop over segments[1:], from index i on
RECURSIVE MergeLoop(_, _, _, _, _)
MergeLoop(segments, t, i, current_segment, merged_segments) ==
    IF i > Len(segments)
    THEN Append(merged_segments, current_segment)
    ELSE LET next_segment == segments[i]
         IN  IF CloserThan(next_segment, current_segment, t)
             THEN MergeLoop(segments, t, i + 1,
                      [current_segment EXCEPT
                          !.end = next_segment.end,
                          !.duration = next_segment.end - current_segment.start],
                      merged_segments)
             ELSE MergeLoop(segments, t, i + 1, next_segment,
                      Append(merged_segments, current_segment))

\* lines 45-60
merge_segments(segments, t) ==
    IF segments = <<>> THEN <<>>
    ELSE MergeLoop(segments, t, 2, segments[1], <<>>)

\* a filter that drops a segment of exactly the minimum duration
KeepLonger(utt, min_d) == utt.duration > min_d

\* line 136: the filter's test
Keep(utt, min_d) == utt.duration >= min_d

\* line 136
FilterShort(segs, min_d) == SelectSeq(segs, LAMBDA utt : Keep(utt, min_d))

\* "{x:.2f}": x rounded to hundredths of a second
Round2(x) == (x * 100 + SAMPLE_RATE \div 2) \div SAMPLE_RATE

\* lines 150-157: the CSV row of a segment
Row(filename, segment) ==
    [filename |-> filename,
     segment_id |-> <<filename, Round2(segment.start), Round2(segment.end)>>,
     start |-> segment.start,
     end |-> segment.end,
     duration |-> segment.duration]

----------------------------------------------------------------------------
(* The pipeline: corpus_vad.py main 57-103, silero.py process_wav_files *)

Root == -1                          \* log_root itself; shard i logs to directory i
Workers == 0..(num_processes - 1)   \* enumerate(sub_lists): data_split indices
Dirs == {Root} \cup (0..(MaxWorkers - 1))
Kinds == {"speech", "short", "nospeech", "unreadable"}

\* get_speech_timestamps on a decodable file of the given kind (sample indices)
DetectorOutput(k) ==
    CASE k = "speech" ->
            << [start |-> 0, end |-> 4800], [start |-> 6400, end |-> 11200],
               [start |-> 24000, end |-> 32000], [start |-> 48000, end |-> 50400] >>
      [] k = "short" -> << [start |-> 0, end |-> 3200] >>
      [] OTHER -> << >>

\* lines 133-136 with the defaults the wrapper leaves in place (corpus_vad 13-19)
Cleaned(f) ==
    FilterShort(merge_segments(Utterances(DetectorOutput(kind[f])), DEFAULT_THRESHOLD),
                DEFAULT_MIN_DURATION)

\* the rows lines 149-157 write for file f
RowsOf(f) == [i \in 1..Len(Cleaned(f)) |-> Row(f, Cleaned(f)[i])]

\* corpus_vad 79: the .wav files of the folder that are not excluded
Files == SelectSeq(corpus, LAMBDA f : f \notin excl)

\* a resume filter that forgets the processed log
NotProcessedNone(list, processed) == list

\* lines 108-111: the files of the list not yet in the processed log
NotProcessed(list, processed) == SelectSeq(list, LAMBDA f : f \notin processed)

\* lines 89-96: a non-empty file list logs to log_root/<data_split>; an empty
\* list is falsy, so the call keeps log_root and scans the folder itself
LogFolderOf(w) == IF sub_lists[w + 1] # <<>> THEN w ELSE Root
FileListOf(w) == IF sub_lists[w + 1] # <<>> THEN sub_lists[w + 1] ELSE corpus

CurrentFile(w) == wav_files[w][pos[w]]

WorkersIdle ==
    /\ wpc = [w \in Workers |-> "idle"]
    /\ log_folder = [w \in Workers |-> Root]
    /\ processed_files = [w \in Workers |-> {}]
    /\ wav_files = [w \in Workers |-> <<>>]
    /\ pos = [w \in Workers |-> 0]
    /\ pending = [w \in Workers |-> <<>>]
    /\ decoded = [w \in Workers |-> {}]
    /\ interrupts = {}

\* nothing consolidated yet, no report made
NoReport == [outcome |-> "none"]

OutputIdle ==
    /\ output = <<>>
    /\ listing = <<>>
    /\ contents = <<>>
    /\ merger_runs = 0
    /\ report = NoReport

PipeInit ==
    /\ exclusions \in {"lists", "unreadable", "unsupported"}
    /\ \E n \in 0..MaxFiles :
          /\ corpus = [i \in 1..n |-> i]
          /\ excl \in IF exclusions = "lists"
                      THEN {e \in SUBSET (1..n) : Cardinality(e) <= MaxExcl}
                      ELSE {{}}
          /\ kind \in [1..n -> Kinds]
    /\ num_processes \in 1..MaxWorkers
    /\ mainPc = "start"
    /\ run = 1
    /\ sub_lists = <<>>
    /\ WorkersIdle
    /\ processed_log = [d \in Dirs |-> <<>>]
    /\ warning_log = [d \in Dirs |-> <<>>]
    /\ error_log = [d \in Dirs |-> <<>>]
    /\ csv = [d \in Dirs |-> <<>>]
    /\ root_exists \in BOOLEAN
    /\ csv_files = {}
    /\ OutputIdle
    /\ faults = 0
    /\ before_kill = [d \in Dirs |-> {}]

\* a parse that takes a source it cannot read for an empty list
ExclusionsIgnored == TRUE

\* corpus_vad 41-52: every exclusion file can be opened and the argument is a
\* list or a path; otherwise open() or line 52 raises
ExclusionsParsed == exclusions = "lists"

\* corpus_vad 76: parse_exclusions raises and the exception leaves main
ParseExclusionsFail ==
    /\ mainPc = "start"
    /\ ~ExclusionsParsed
    /\ mainPc' = "aborted"
    /\ UNCHANGED <<run, sub_lists>>
    /\ UNCHANGED <<inputVars, workerVars, diskVars, outVars, histVars, splitVars, mergeVars, reportVars>>

\* corpus_vad 76-92: list the folder, split it, hand one shard to each pool task
Plan ==
    /\ mainPc = "start"
    /\ ExclusionsParsed
    /\ mainPc' = "pool"
    /\ sub_lists' = split_list(Files, num_processes)
    /\ wpc' = [w \in Workers |-> "ready"]
    /\ UNCHANGED <<run, log_folder, processed_files, wav_files, pos, pending>>
    /\ UNCHANGED <<inputVars, diskVars, histVars, outVars, splitVars, mergeVars, reportVars>>

\* silero 82: load_silero_vad raises; the exception leaves process_wav_files
LoadFail(w) ==
    /\ mainPc = "pool"
    /\ wpc[w] = "ready"
    /\ wpc' = [wpc EXCEPT ![w] = "failed"]
    /\ UNCHANGED <<log_folder, processed_files, wav_files, pos, pending>>
    /\ UNCHANGED <<inputVars, mainVars, diskVars, histVars, outVars, splitVars, mergeVars, reportVars>>

\* silero 95-113: a call with an empty list makes no directory; opening the
\* segment CSV under a log_root that does not exist raises out of the call
OpenFail(w) ==
    /\ mainPc = "pool"
    /\ wpc[w] = "ready"
    /\ LogFolderOf(w) = Root
    /\ ~root_exists
    /\ wpc' = [wpc EXCEPT ![w] = "failed"]
    /\ UNCHANGED <<log_folder, processed_files, wav_files, pos, pending>>
    /\ UNCHANGED <<inputVars, mainVars, diskVars, histVars, outVars, splitVars, mergeVars, reportVars>>

\* silero 82-116: choose the log folder (os.makedirs creates log_root with the
\* shard's directory), read the processed log, select the files to handle,
\* open the segment CSV for writing (truncating it)
Setup(w) ==
    /\ mainPc = "pool"
    /\ wpc[w] = "ready"
    /\ LogFolderOf(w) = Root => root_exists
    /\ root_exists' = TRUE
    /\ LET d == LogFolderOf(w)
           done == Range(processed_log[d])
       IN  /\ log_folder' = [log_folder EXCEPT ![w] = d]
           /\ processed_files' = [processed_files EXCEPT ![w] = done]
           /\ wav_files' = [wav_files EXCEPT ![w] = NotProcessed(FileListOf(w), done)]
           /\ csv' = [csv EXCEPT ![d] = <<>>]
           /\ csv_files' = csv_files \cup {d}
    /\ pos' = [pos EXCEPT ![w] = 1]
    /\ wpc' = [wpc EXCEPT ![w] = "loop"]
    /\ UNCHANGED <<pending, processed_log, warning_log, error_log>>
    /\ UNCHANGED <<inputVars, mainVars, histVars, outVars, splitVars, mergeVars, reportVars>>

\* an exception handler that lets the exception end the call
OnExceptionAbort(w, f, msg) ==
    /\ error_log' = [error_log EXCEPT ![log_folder[w]] = Append(@, <<f, msg>>)]
    /\ wpc' = [wpc EXCEPT ![w] = "failed"]
    /\ pos' = pos
    /\ pending' = [pending EXCEPT ![w] = <<>>]

\* silero 160-163: the per-file handler appends "<filename>: <e>" to the error
\* log and the loop goes on with the next file
OnException(w, f, msg) ==
    /\ error_log' = [error_log EXCEPT ![log_folder[w]] = Append(@, <<f, msg>>)]
    /\ wpc' = [wpc EXCEPT ![w] = "loop"]
    /\ pos' = [pos EXCEPT ![w] = @ + 1]
    /\ pending' = [pending EXCEPT ![w] = <<>>]

\* silero 119-144: decode, detect, merge, filter, mark the file processed
HandleFile(w) ==
    /\ mainPc = "pool"
    /\ wpc[w] = "loop"
    /\ pos[w] <= Len(wav_files[w])
    /\ LET f == CurrentFile(w)
           d == log_folder[w]
       IN  /\ decoded' = [decoded EXCEPT ![w] = @ \cup {f}]
           /\ \/ /\ kind[f] = "unreadable"
                 /\ OnException(w, f, "decode")
                 /\ UNCHANGED <<processed_log, warning_log>>
              \/ /\ kind[f] = "nospeech"
                 /\ warning_log' = [warning_log EXCEPT ![d] = Append(@, f)]
                 /\ pos' = [pos EXCEPT ![w] = @ + 1]
                 /\ UNCHANGED <<wpc, pending, processed_log, error_log>>
              \/ /\ kind[f] \in {"speech", "short"}
                 /\ processed_log' = [processed_log EXCEPT ![d] = Append(@, f)]
                 /\ IF RowsOf(f) = <<>>
                    THEN /\ pos' = [pos EXCEPT ![w] = @ + 1]
                         /\ UNCHANGED <<wpc, pending>>
                    ELSE /\ pending' = [pending EXCEPT ![w] = RowsOf(f)]
                         /\ wpc' = [wpc EXCEPT ![w] = "emit"]
                         /\ pos' = pos
                 /\ UNCHANGED <<warning_log, error_log>>
    /\ UNCHANGED <<log_folder, processed_files, wav_files, csv, root_exists, csv_files>>
    /\ UNCHANGED <<faults, before_kill, interrupts>>
    /\ UNCHANGED <<inputVars, mainVars, outVars, splitVars, mergeVars, reportVars>>

\* silero 149-158: write one row and flush
WriteRow(w) ==
    /\ mainPc = "pool"
    /\ wpc[w] = "emit"
    /\ csv' = [csv EXCEPT ![log_folder[w]] = Append(@, Head(pending[w]))]
    /\ IF Len(pending[w]) = 1
       THEN /\ pending' = [pending EXCEPT ![w] = <<>>]
            /\ wpc' = [wpc EXCEPT ![w] = "loop"]
            /\ pos' = [pos EXCEPT ![w] = @ + 1]
       ELSE /\ pending' = [pending EXCEPT ![w] = Tail(@)]
            /\ UNCHANGED <<wpc, pos>>
    /\ UNCHANGED <<log_folder, processed_files, wav_files>>
    /\ UNCHANGED <<processed_log, warning_log, error_log, root_exists, csv_files>>
    /\ UNCHANGED <<inputVars, mainVars, histVars, outVars, splitVars, mergeVars, reportVars>>

\* silero 151-163: writerow or flush raises (an I/O error); the per-file
\* handler catches it
WriteFault(w) ==
    /\ mainPc = "pool"
    /\ wpc[w] = "emit"
    /\ faults < MaxFaults
    /\ faults' = faults + 1
    /\ OnException(w, CurrentFile(w), "io")
    /\ UNCHANGED <<log_folder, processed_files, wav_files>>
    /\ UNCHANGED <<processed_log, warning_log, csv, root_exists, csv_files>>
    /\ UNCHANGED <<decoded, before_kill, interrupts>>
    /\ UNCHANGED <<inputVars, mainVars, outVars, splitVars, mergeVars, reportVars>>

\* silero 119, 113: the loop is exhausted, the CSV is closed, the call returns
Finish(w) ==
    /\ mainPc = "pool"
    /\ wpc[w] = "loop"
    /\ pos[w] > Len(wav_files[w])
    /\ wpc' = [wpc EXCEPT ![w] = "done"]
    /\ UNCHANGED <<log_folder, processed_files, wav_files, pos, pending>>
    /\ UNCHANGED <<inputVars, mainVars, diskVars, histVars, outVars, splitVars, mergeVars, reportVars>>

\* a handler for the interrupt that treats it as the file's exception
OnInterruptCaught(w) == OnException(w, CurrentFile(w), "interrupt")

\* silero 160, 165-168: KeyboardInterrupt is no Exception, so the per-file
\* handler lets it pass; the outer handler closes the CSV (every row was
\* flushed when written) and sys.exit(0) leaves the call
OnInterrupt(w) ==
    /\ wpc' = [wpc EXCEPT ![w] = "exited"]
    /\ pending' = [pending EXCEPT ![w] = <<>>]
    /\ UNCHANGED <<pos, error_log>>

\* silero 118-168: an interrupt reaches the worker while it handles a file
Interrupt(w) ==
    /\ mainPc = "pool"
    /\ wpc[w] \in {"loop", "emit"}
    /\ pos[w] <= Len(wav_files[w])
    /\ OnInterrupt(w)
    /\ interrupts' = interrupts \cup {w}
    /\ UNCHANGED <<log_folder, processed_files, wav_files>>
    /\ UNCHANGED <<processed_log, warning_log, csv, root_exists, csv_files>>
    /\ UNCHANGED <<decoded, faults, before_kill>>
    /\ UNCHANGED <<inputVars, mainVars, outVars, splitVars, mergeVars, reportVars>>

\* a map that returns as soon as one task has failed
PoolReturnsOnFailure ==
    \/ \A w \in Workers : wpc[w] = "done"
    \/ \E w \in Workers : wpc[w] = "failed"

\* corpus_vad 86: pool.map returns (or re-raises a task's exception) only once
\* every task has returned or raised
PoolReturns == \A w \in Workers : wpc[w] \in {"done", "failed"}

\* corpus_vad 85-92: the pool's map comes back; a task's exception is re-raised
\* in the main process, which then never reaches the merger
Join ==
    /\ mainPc = "pool"
    /\ PoolReturns
    /\ mainPc' = IF \E w \in Workers : wpc[w] = "failed" THEN "aborted" ELSE "joined"
    /\ UNCHANGED <<run, sub_lists>>
    /\ UNCHANGED <<inputVars, workerVars, diskVars, histVars, outVars, splitVars, mergeVars, reportVars>>

\* the rows of file f in the segment CSV of directory d
RowsIn(d, f) == SelectSeq(csv[d], LAMBDA r : r.filename = f)

\* the files of directory d that are complete on disk: marked processed, all
\* rows written
Complete(d) == {f \in Range(processed_log[d]) : RowsIn(d, f) = RowsOf(f)}

\* the processes of the run are killed (or have ended) and the pipeline is
\* started again on the same folder and log root: only the disk survives
Rerun ==
    /\ mainPc \in {"pool", "joined", "aborted"}
    /\ run < MaxRuns
    /\ run' = run + 1
    /\ mainPc' = "start"
    /\ sub_lists' = <<>>
    /\ wpc' = [w \in Workers |-> "idle"]
    /\ log_folder' = [w \in Workers |-> Root]
    /\ processed_files' = [w \in Workers |-> {}]
    /\ wav_files' = [w \in Workers |-> <<>>]
    /\ pos' = [w \in Workers |-> 0]
    /\ pending' = [w \in Workers |-> <<>>]
    /\ decoded' = [w \in Workers |-> {}]
    /\ before_kill' = [d \in Dirs |-> Complete(d)]
    /\ interrupts' = {}
    /\ UNCHANGED <<faults>>
    /\ UNCHANGED <<inputVars, diskVars, outVars, splitVars, mergeVars, reportVars>>

----------------------------------------------------------------------------
(* The output merger: process_output.py.  A log line "<filename>\n" is the   *)
(* filename; a consolidated file is the sequence of its lines or rows.      *)

\* line 26: the file names searched for, in the order of the dict's keys
file_patterns == <<"processed_files.log", "speech_segments.csv", "warning_files.log">>

\* line 23: the sub-directories of log_root (made with the shard's CSV)
ShardDirs == csv_files \ {Root}

\* the sequences that hold each element of S once
Orderings(S) ==
    {o \in [1..Cardinality(S) -> S] :
        \A i, j \in 1..Cardinality(S) : o[i] = o[j] => i = j}

\* the file called name in directory d of the log root
FileIn(d, name) ==
    CASE name = "processed_files.log" -> processed_log[d]
      [] name = "warning_files.log" -> warning_log[d]
      [] name = "error_files.log" -> error_log[d]
      [] name = "speech_segments.csv" -> csv[d]

\* a log exists once a line was appended to it (open(.., 'a')), the CSV once a
\* call has opened it
Exists(d, name) ==
    IF name = "speech_segments.csv" THEN d \in csv_files ELSE FileIn(d, name) # <<>>

\* line 31: glob(log_root/**/pattern, recursive=True) matches the file of
\* log_root itself first, then those of the sub-directories as listed
Glob(order, pattern) == SelectSeq(<<Root>> \o order, LAMBDA d : Exists(d, pattern))

\* lines 13-42: _retrieve_output
Retrieve ==
    /\ mainPc \in {"start", "joined", "merged"}
    /\ merger_runs < MaxMerges
    /\ root_exists
    /\ \E order \in Orderings(ShardDirs) :
          /\ listing \in {<<>>, order}
          /\ listing' = order
          /\ contents' = [pattern \in Range(file_patterns) |-> Glob(order, pattern)]
    /\ mainPc' = "retrieved"
    /\ UNCHANGED <<run, sub_lists, output, merger_runs, report>>
    /\ UNCHANGED <<inputVars, workerVars, diskVars, histVars, splitVars, mergeVars, reportVars>>

\* line 23: os.scandir raises when log_root does not exist
RetrieveFail ==
    /\ mainPc \in {"start", "joined", "merged"}
    /\ ~root_exists
    /\ mainPc' = "merge_failed"
    /\ UNCHANGED <<run, sub_lists>>
    /\ UNCHANGED <<inputVars, workerVars, diskVars, outVars, histVars, splitVars, mergeVars, reportVars>>

\* lines 58-64: the lines of the files of one type, as a set
MergedLines(file_list, file_type) ==
    Range(Concat([i \in 1..Len(file_list) |-> FileIn(file_list[i], file_type)]))

\* a drop_duplicates that keeps every row
drop_duplicates_none(table) == table

\* line 80: drop_duplicates(keep="first")
RECURSIVE drop_duplicates(_)
drop_duplicates(table) ==
    IF table = <<>> THEN <<>>
    ELSE <<Head(table)>> \o
         drop_duplicates(SelectSeq(Tail(table), LAMBDA r : r # Head(table)))

\* lines 71-80: the CSVs read in order, concatenated, duplicates dropped
MergedTable(file_list) ==
    drop_duplicates(Concat([i \in 1..Len(file_list) |-> csv[file_list[i]]]))

\* a merger that appends the table to the consolidated CSV it finds
RECURSIVE MergeFilesAppend(_, _)
MergeFilesAppend(i, out) ==
    IF i > Len(file_patterns) THEN {[output |-> out, raised |-> FALSE]}
    ELSE LET file_type == file_patterns[i]
             file_list == contents[file_type]
             old == IF file_type \in DOMAIN out THEN out[file_type] ELSE <<>>
         IN  IF file_type # "speech_segments.csv"
             THEN UNION {MergeFilesAppend(i + 1, (file_type :> lines) @@ out) :
                            lines \in Orderings(MergedLines(file_list, file_type))}
             ELSE IF file_list = <<>>
                  THEN {[output |-> out, raised |-> TRUE]}
                  ELSE MergeFilesAppend(i + 1,
                           (file_type :> old \o MergedTable(file_list))
                           @@ ("speech_segments.parquet" :> MergedTable(file_list))
                           @@ out)

\* lines 56-85 from the i-th file type on, the output directory being out: the
\* outcomes [output, raised].  list(set(..)) puts the lines in any order;
\* pd.concat raises on an empty list of frames
RECURSIVE MergeFiles(_, _)
MergeFiles(i, out) ==
    IF i > Len(file_patterns) THEN {[output |-> out, raised |-> FALSE]}
    ELSE LET file_type == file_patterns[i]
             file_list == contents[file_type]
         IN  IF file_type # "speech_segments.csv"
             THEN UNION {MergeFiles(i + 1, (file_type :> lines) @@ out) :
                            lines \in Orderings(MergedLines(file_list, file_type))}
             ELSE IF file_list = <<>>
                  THEN {[output |-> out, raised |-> TRUE]}
                  ELSE MergeFiles(i + 1,
                           (file_type :> MergedTable(file_list))
                           @@ ("speech_segments.parquet" :> MergedTable(file_list))
                           @@ out)

\* lines 44-85: _merge_vad_output
MergeOutput ==
    /\ mainPc = "retrieved"
    /\ \E r \in MergeFiles(1, output) :
          /\ output' = r.output
          /\ mainPc' = IF r.raised THEN "merge_failed" ELSE "merged"
          /\ merger_runs' = IF r.raised THEN merger_runs ELSE merger_runs + 1
    /\ UNCHANGED <<run, sub_lists, listing, contents, report>>
    /\ UNCHANGED <<inputVars, workerVars, diskVars, histVars, splitVars, mergeVars, reportVars>>

----------------------------------------------------------------------------
(* The report generator: report.py, utils.py *)

\* utils 12: wave.open raises on a file it cannot parse
WaveError == -1

RECURSIVE SumSeq(_)
SumSeq(seq) == IF seq = <<>> THEN 0 ELSE Head(seq) + SumSeq(Tail(seq))

\* a percentage printed from the fraction a / b itself
Fraction2(a, b) == (a * 100 + b \div 2) \div b

\* report 89-90, 97-98: "{x:.2f}" of 100 * a / b (and of 100 minus it, which is
\* 100 * (b - a) / b), in hundredths of a percent
Percent2(a, b) ==
    LET r0 == a % b
        r1 == (r0 * 100) % b
        r2 == (r1 * 100) % b
    IN  (a \div b) * 10000 + ((r0 * 100) \div b) * 100 + (r1 * 100) \div b
        + (IF 2 * r2 >= b THEN 1 ELSE 0)

\* report 121-127 on a folder whose .wav files have the given durations (or
\* make wave.open raise) and on a CSV with the given rows: the fields of the
\* Report object afterwards.  outcome: "raised" (an exception leaves the call),
\* "warned" (line 119, no report file), "written" (lines 92-117)
ReportOn(durations, table) ==
    LET total_files == Len(durations)
        wave_raises == \E i \in 1..Len(durations) : durations[i] = WaveError
        total_audio_duration == IF wave_raises THEN 0 ELSE SumSeq(durations)
        all_durations == [i \in 1..Len(table) |-> table[i].duration]
        total_speech_duration == SumSeq(all_durations)
        files_with_speech == {table[i].filename : i \in 1..Len(table)}
        fields == [total_files |-> total_files,
                   total_audio_duration |-> total_audio_duration,
                   total_speech_duration |-> total_speech_duration,
                   total_segments |-> Len(table),
                   files_without_speech |-> total_files - Cardinality(files_with_speech)]
        none == [speech_percentage |-> 0, non_speech_percentage |-> 0]
    IN  IF wave_raises
        THEN [outcome |-> "raised"] @@ none @@ fields
        ELSE IF all_durations # <<>>
             THEN IF total_audio_duration = 0
                  THEN [outcome |-> "raised"] @@ none @@ fields
                  ELSE [outcome |-> "written"]
                       @@ [speech_percentage |->
                              Percent2(total_speech_duration, total_audio_duration),
                           non_speech_percentage |->
                              Percent2(total_audio_duration - total_speech_duration,
                                       total_audio_duration)]
                       @@ fields
             ELSE [outcome |-> "warned"] @@ none @@ fields

\* the length in samples of a file of the given kind whose header wave.open
\* can read
FramesOf(k) ==
    CASE k = "speech" -> 64000
      [] k = "short" -> 16000
      [] k = "nospeech" -> 32000
      [] OTHER -> 16000

\* corpus_vad 97-103: the report over the data folder and ./output's table.
\* Every .wav file of the folder is measured, the excluded ones too; a file
\* read_audio could not decode may or may not make wave.open raise
RunReport ==
    /\ mainPc = "merged"
    /\ \E bad \in SUBSET {f \in Range(corpus) : kind[f] = "unreadable"} :
          report' = ReportOn([i \in 1..Len(corpus) |->
                                 IF corpus[i] \in bad THEN WaveError
                                 ELSE FramesOf(kind[corpus[i]])],
                             output["speech_segments.csv"])
    /\ mainPc' = IF report'.outcome = "raised" THEN "report_failed" ELSE "reported"
    /\ UNCHANGED <<run, sub_lists, output, listing, contents, merger_runs>>
    /\ UNCHANGED <<inputVars, workerVars, diskVars, histVars, splitVars, mergeVars, reportVars>>

SplitOff == sl_lst = <<>> /\ sl_n = 1 /\ sl_out = <<>>

MergeOff ==
    /\ mpc = "off"
    /\ utterances = <<>>
    /\ threshold = 0
    /\ min_duration = 0
    /\ merged = <<>>
    /\ cleaned = <<>>
    /\ rows = <<>>

ReportOff == rp_folder = <<>> /\ rp_table = <<>>

Init == PipeInit /\ SplitOff /\ MergeOff /\ ReportOff

Next ==
    \/ ParseExclusionsFail
    \/ Plan
    \/ \E w \in Workers : LoadFail(w)
    \/ \E w \in Workers : OpenFail(w)
    \/ \E w \in Workers : Setup(w)
    \/ \E w \in Workers : HandleFile(w)
    \/ \E w \in Workers : WriteRow(w)
    \/ \E w \in Workers : WriteFault(w)
    \/ \E w \in Workers : Finish(w)
    \/ Join
    \/ Rerun
    \/ Retrieve
    \/ RetrieveFail
    \/ MergeOutput
    \/ RunReport

Spec == Init /\ [][Next]_vars

PipeOff ==
    /\ corpus = <<>>
    /\ exclusions = "lists"
    /\ excl = {}
    /\ num_processes = 1
    /\ kind = <<>>
    /\ mainPc = "off"
    /\ run = 1
    /\ sub_lists = <<>>
    /\ WorkersIdle
    /\ processed_log = [d \in Dirs |-> <<>>]
    /\ warning_log = [d \in Dirs |-> <<>>]
    /\ error_log = [d \in Dirs |-> <<>>]
    /\ csv = [d \in Dirs |-> <<>>]
    /\ root_exists = FALSE
    /\ csv_files = {}
    /\ OutputIdle
    /\ faults = 0
    /\ before_kill = [d \in Dirs |-> {}]

----------------------------------------------------------------------------
(* SpecSplit: split_list on a listing and a worker count *)

Ascending(n) == [i \in 1..n |-> i]
Descending(n) == [i \in 1..n |-> n + 1 - i]

SplitInit ==
    /\ \E n \in 0..MaxLen : sl_lst \in {Ascending(n), Descending(n)}
    /\ sl_n \in 1..MaxShards
    /\ sl_out = <<>>
    /\ MergeOff
    /\ PipeOff
    /\ ReportOff

\* corpus_vad 25, 82: list() draws the next sub-list from the generator
SplitYield ==
    /\ Len(sl_out) < sl_n
    /\ sl_out' = Append(sl_out, split_slice(sl_lst, sl_n, Len(sl_out)))
    /\ UNCHANGED <<sl_lst, sl_n, mergeVars, pipeVars, reportVars>>

SplitNext == SplitYield

SpecSplit == SplitInit /\ [][SplitNext]_vars

----------------------------------------------------------------------------
(* SpecMerge: merge -> filter -> emit on the detector output of one file *)

\* the timestamps with the given silences and lengths: gl[i] = <<silence before
\* interval i, length of interval i>>
RECURSIVE Timestamps(_, _)
Timestamps(gl, from) ==
    IF gl = <<>> THEN <<>>
    ELSE LET s == from + Head(gl)[1]
             e == s + Head(gl)[2]
         IN  <<[start |-> s, end |-> e]>> \o Timestamps(Tail(gl), e)

Stamp(s, e) == [start |-> s, end |-> e]

\* the sorted, non-overlapping detector outputs of k intervals that begin at 0
EnumeratedOutputs(k) ==
    IF k = 0 THEN {<<>>}
    ELSE {<<Stamp(0, d)>> \o Timestamps(gl, d) :
             d \in 1..MaxDur, gl \in [1..(k - 1) -> (0..MaxGap) \X (1..MaxDur)]}

\* the inputs of the spec's examples, in samples: [(0,1),(1.1,2)], [(0,1),(1.3,2)],
\* [(0,1),(1.1,2),(2.1,3)], [(2,3)], and one with durations 0.3 and 0.5
ExampleOutputs ==
    { <<Stamp(0, 16000), Stamp(17600, 32000)>>,
      <<Stamp(0, 16000), Stamp(20800, 32000)>>,
      <<Stamp(0, 16000), Stamp(17600, 32000), Stamp(33600, 48000)>>,
      <<Stamp(32000, 48000)>>,
      <<Stamp(0, 4800), Stamp(16000, 24000)>> }

MergeInit ==
    /\ mpc = "start"
    /\ \/ /\ \E k \in 0..MaxSegs :
                utterances \in {Utterances(ts) : ts \in EnumeratedOutputs(k)}
          /\ threshold \in (-1)..(MaxGap + 1)
       \/ /\ utterances \in {Utterances(ts) : ts \in ExampleOutputs}
          /\ threshold = DEFAULT_THRESHOLD
    /\ min_duration = 0
    /\ merged = <<>>
    /\ cleaned = <<>>
    /\ rows = <<>>
    /\ SplitOff
    /\ PipeOff
    /\ ReportOff

\* silero 135
Merge ==
    /\ mpc = "start"
    /\ merged' = merge_segments(utterances, threshold)
    /\ mpc' = "merged"
    /\ UNCHANGED <<utterances, threshold, min_duration, cleaned, rows, splitVars, pipeVars, reportVars>>

\* silero 136, for a configured minimum duration
Filter ==
    /\ mpc = "merged"
    /\ \E m \in IF threshold = DEFAULT_THRESHOLD THEN {DEFAULT_MIN_DURATION}
                ELSE 0..(MaxDur + 1) :
          /\ min_duration' = m
          /\ cleaned' = FilterShort(merged, m)
    /\ mpc' = "filtered"
    /\ UNCHANGED <<utterances, threshold, merged, rows, splitVars, pipeVars, reportVars>>

\* silero 149-158: the next row of the file (filename 1) is written
EmitRow ==
    /\ mpc = "filtered"
    /\ Len(rows) < Len(cleaned)
    /\ rows' = Append(rows, Row(1, cleaned[Len(rows) + 1]))
    /\ UNCHANGED <<mpc, utterances, threshold, min_duration, merged, cleaned, splitVars, pipeVars, reportVars>>

MergeNext == Merge \/ Filter \/ EmitRow

SpecMerge == MergeInit /\ [][MergeNext]_vars

----------------------------------------------------------------------------
(* SpecRun: the extraction runs of the pipeline, up to the return of the    *)
(* pool's map.  Every worker is a process of its own that the operating     *)
(* system keeps scheduling, and every blocking call of the per-file loop    *)
(* returns or raises: a step of the loop that is possible is taken.         *)

\* the exclusion files were read and exclude nothing; the folder is small
\* when the pool is large
RunInit ==
    /\ Init
    /\ ExclusionsParsed
    /\ excl = {}
    /\ Len(corpus) * num_processes <= MaxLoad

RunNext ==
    \/ Plan
    \/ \E w \in Workers :
          \/ LoadFail(w)
          \/ OpenFail(w)
          \/ Setup(w)
          \/ HandleFile(w)
          \/ WriteRow(w)
          \/ WriteFault(w)
          \/ Finish(w)
    \/ Join
    \/ Rerun

\* a step of some worker's loop
LoopStep == \E w \in Workers : HandleFile(w) \/ WriteRow(w) \/ Finish(w)

\* while some worker can take a step of its loop, one of them does
WorkerFairness == WF_vars(LoopStep)

SpecRun == RunInit /\ [][RunNext]_vars /\ WorkerFairness

----------------------------------------------------------------------------
(* SpecInterrupt: the extraction runs, with interrupts sent to workers *)

InterruptNext ==
    \/ ParseExclusionsFail
    \/ RunNext
    \/ \E w \in Workers : Interrupt(w)

SpecInterrupt == Init /\ [][InterruptNext]_vars

----------------------------------------------------------------------------
(* SpecReport: report.py run on a folder and a CSV file of its own *)

\* the rows a CSV can hold: a filename and a duration in whole seconds
ReportRows ==
    [filename : 1..2, duration : {n * SAMPLE_RATE : n \in 1..MaxSeconds}]

SeqsUpTo(S, n) == UNION {[1..k -> S] : k \in 0..n}

\* a folder of three files that total 30 s, and tables whose rows total 9 s
ExampleFolders ==
    {<<10 * SAMPLE_RATE, 10 * SAMPLE_RATE, 10 * SAMPLE_RATE>>,
     <<5 * SAMPLE_RATE, 12 * SAMPLE_RATE, 13 * SAMPLE_RATE>>}

ExampleTables ==
    {<<[filename |-> 1, duration |-> 4 * SAMPLE_RATE],
       [filename |-> 2, duration |-> 5 * SAMPLE_RATE]>>,
     <<[filename |-> 1, duration |-> 2 * SAMPLE_RATE],
       [filename |-> 1, duration |-> 3 * SAMPLE_RATE],
       [filename |-> 3, duration |-> 4 * SAMPLE_RATE]>>}

ReportInit ==
    /\ \/ /\ rp_folder \in SeqsUpTo({WaveError} \cup {n * SAMPLE_RATE : n \in 0..MaxSeconds},
                                    MaxFolder)
          /\ rp_table \in SeqsUpTo(ReportRows, MaxRows)
       \/ /\ rp_folder \in ExampleFolders
          /\ rp_table \in ExampleTables
    /\ SplitOff
    /\ MergeOff
    /\ PipeOff

\* report 130-139: report() on the folder and the CSV file named on the
\* command line
ReportCall ==
    /\ report = NoReport
    /\ report' = ReportOn(rp_folder, rp_table)
    /\ UNCHANGED <<output, listing, contents, merger_runs>>
    /\ UNCHANGED <<inputVars, mainVars, workerVars, diskVars, histVars>>
    /\ UNCHANGED <<splitVars, mergeVars, reportVars>>

ReportNext == ReportCall

SpecReport == ReportInit /\ [][ReportNext]_vars

----------------------------------------------------------------------------
(* Claims *)

\* C1: once split_list has yielded all K sub-lists of L, there are exactly K of
\* them, their concatenation in shard order is L (no file lost, repeated or
\* moved), their sizes differ by at most 1, and exactly the first (len(L) mod K)
\* of them hold one file more than the others.
C1_BalancedContiguousSplit ==
    /\ Len(sl_out) <= sl_n
    /\ \A i \in 1..Len(sl_out) :
          \E a, b \in 0..Len(sl_lst) : sl_out[i] = Slice(sl_lst, a, b)
    /\ Len(sl_out) = sl_n =>
        /\ Concat(sl_out) = sl_lst
        /\ \A f \in Range(sl_lst) :
              Cardinality({i \in 1..sl_n : f \in Range(sl_out[i])}) = 1
        /\ \A i, j \in 1..sl_n : Len(sl_out[i]) - Len(sl_out[j]) <= 1
        /\ \A i \in 1..sl_n :
              Len(sl_out[i]) = Len(sl_out[sl_n]) +
                  (IF i <= Len(sl_lst) % sl_n THEN 1 ELSE 0)

\* five files cut into three shards of sizes 2, 2, 1
C1_Witness ==
    /\ Len(sl_out) = sl_n
    /\ sl_n = 3
    /\ Len(sl_lst) = 5
    /\ Len(sl_out[1]) = 2 /\ Len(sl_out[2]) = 2 /\ Len(sl_out[3]) = 1

\* the reference greedy pass of the merge contract, stated on the input alone:
\* interval i opens a new output interval iff it is the first or its start is
\* at least t after the end of interval i - 1 (the accumulated end)
GroupStarts(segs, t) ==
    {i \in 1..Len(segs) : i = 1 \/ segs[i].start - segs[i - 1].end >= t}

GroupLast(segs, t, i) ==
    CHOOSE j \in i..Len(segs) :
        /\ \A k \in (i + 1)..j : k \notin GroupStarts(segs, t)
        /\ j = Len(segs) \/ j + 1 \in GroupStarts(segs, t)

Joined(segs, i, j) ==
    IF i = j THEN segs[i]
    ELSE [start |-> segs[i].start, end |-> segs[j].end,
          duration |-> segs[j].end - segs[i].start]

RECURSIVE SortedSeq(_)
SortedSeq(S) ==
    IF S = {} THEN <<>>
    ELSE LET m == CHOOSE x \in S : \A y \in S : x <= y
         IN  <<m>> \o SortedSeq(S \ {m})

ReferenceMerge(segs, t) ==
    LET starts == SortedSeq(GroupStarts(segs, t))
    IN  [k \in 1..Len(starts) |-> Joined(segs, starts[k], GroupLast(segs, t, starts[k]))]

\* C9: on sorted non-overlapping input merge_segments returns the reference
\* greedy pass: intervals are joined iff the gap to the accumulated end is
\* strictly below the threshold; empty input gives empty output, a single
\* interval comes back unchanged, and a chain of close intervals collapses into
\* one interval from the first start to the last end.
C9_MergeIsGreedyPass ==
    mpc # "start" =>
        /\ merged = ReferenceMerge(utterances, threshold)
        /\ utterances = <<>> => merged = <<>>
        /\ Len(utterances) = 1 => merged = utterances
        /\ (/\ Len(utterances) >= 1
            /\ \A i \in 2..Len(utterances) :
                  utterances[i].start - utterances[i - 1].end < threshold)
           => merged = << [start |-> utterances[1].start,
                           end |-> utterances[Len(utterances)].end,
                           duration |-> utterances[Len(utterances)].end
                                          - utterances[1].start] >>
        /\ (/\ Len(utterances) >= 2
            /\ \A i \in 2..Len(utterances) :
                  utterances[i].start - utterances[i - 1].end = threshold)
           => merged = utterances

\* three intervals: the first two are closer than the threshold and are joined,
\* the third is exactly the threshold away and stays apart
C9_Witness ==
    /\ mpc = "merged"
    /\ Len(utterances) = 3
    /\ threshold > 0
    /\ utterances[2].start - utterances[1].end = threshold - 1
    /\ utterances[3].start - utterances[2].end = threshold
    /\ Len(merged) = 2
    /\ merged[1].end = utterances[2].end

\* C10: once the file's rows are written, the CSV holds a row for a merged
\* segment iff its duration is >= the minimum duration (equality is kept), one
\* row each, in merged order.
C10_FilterInclusive ==
    (mpc = "filtered" /\ Len(rows) = Len(cleaned)) =>
        LET kept == {i \in 1..Len(merged) : merged[i].duration >= min_duration}
        IN  /\ Len(rows) = Cardinality(kept)
            /\ \A i \in 1..Len(merged) :
                  i \in kept <=>
                      \E j \in 1..Len(rows) :
                          /\ rows[j].start = merged[i].start
                          /\ rows[j].end = merged[i].end
                          /\ rows[j].duration = merged[i].duration
            /\ \A j, k \in 1..Len(rows) : j < k => rows[j].end <= rows[k].start

\* a merged segment of exactly the minimum duration is written, a shorter one
\* is not
C10_Witness ==
    /\ mpc = "filtered"
    /\ Len(rows) = Len(cleaned)
    /\ Len(merged) = 2
    /\ merged[1].duration < min_duration
    /\ merged[2].duration = min_duration
    /\ Len(rows) = 1
    /\ rows[1].start = merged[2].start


Started(w) == wpc[w] \in {"loop", "emit", "done"}

\* how often file f is named in the three logs of directory d
LogEntries(d, f) ==
    Len(SelectSeq(processed_log[d], LAMBDA x : x = f))
    + Len(SelectSeq(warning_log[d], LAMBDA x : x = f))
    + Len(SelectSeq(error_log[d], LAMBDA x : x[1] = f))

\* C2: no two workers of a run write the same checkpoint files, and no file is
\* handled by more than one worker, whatever K and the corpus size.
C2_WorkersDisjoint ==
    \A v, w \in Workers :
        (v # w /\ Started(v) /\ Started(w)) =>
            /\ log_folder[v] # log_folder[w]
            /\ decoded[v] \cap decoded[w] = {}

\* C3: a call never decodes a file that its processed log already held when it
\* started, and the rows of a shard's CSV are never duplicated by a re-run.
C3_ResumeSkipsProcessed ==
    \A w \in Workers :
        Started(w) =>
            /\ decoded[w] \cap processed_files[w] = {}
            /\ \A f \in processed_files[w] : f \notin Range(wav_files[w])
            /\ log_folder[w] = w =>
                  \A i, j \in 1..Len(csv[w]) : i # j => csv[w][i] # csv[w][j]

\* a resumed call has finished: it skipped a file of its shard that was in the
\* processed log and decoded another one
C3_Witness ==
    \E w \in Workers :
        /\ run = 2
        /\ wpc[w] = "done"
        /\ log_folder[w] = w
        /\ processed_files[w] \cap Range(sub_lists[w + 1]) # {}
        /\ decoded[w] # {}

\* C4: after a kill and a completed re-run of the shard, every file that was
\* recorded as processed (rows written) before the kill still has all of its
\* rows in the shard's CSV.
C4_CompletedFilesSurviveKill ==
    \A w \in Workers :
        (run > 1 /\ wpc[w] = "done") =>
            \A f \in before_kill[log_folder[w]] :
                RowsIn(log_folder[w], f) = RowsOf(f)

\* C5: a file is in the processed log only when all of its surviving segments
\* are in the CSV.
C5_RowsBeforeProcessedMark ==
    \A w \in Workers :
        (Started(w) /\ log_folder[w] = w) =>
            \A f \in Range(processed_log[w]) \ processed_files[w] :
                RowsIn(w, f) = RowsOf(f)

\* C6: when a shard's call has returned (no I/O error having been injected),
\* each file of the shard is named exactly once in the shard's processed,
\* warning and error logs together, after a first and after a resumed run.
C6_ExactlyOneLogEntry ==
    \A w \in Workers :
        (wpc[w] = "done" /\ log_folder[w] = w /\ faults = 0) =>
            \A f \in Range(sub_lists[w + 1]) : LogEntries(w, f) = 1

\* this step raises an exception in call w while it handles a file
Raises(w) ==
    /\ mainPc' = mainPc
    /\ \/ /\ wpc[w] = "loop"
          /\ decoded'[w] # decoded[w]
          /\ kind[CurrentFile(w)] = "unreadable"
       \/ /\ wpc[w] = "emit"
          /\ faults' # faults
          /\ wpc'[w] # "emit"

C7_Caught ==
    \A w \in Workers :
        Raises(w) =>
            /\ \E msg \in {"decode", "io"} :
                  error_log'[log_folder[w]] =
                      Append(error_log[log_folder[w]], <<CurrentFile(w), msg>>)
            /\ wpc'[w] = "loop"
            /\ pos'[w] = pos[w] + 1
            /\ wav_files'[w] = wav_files[w]

C7_OneBadFile ==
    \A w \in Workers :
        LET shard == Range(sub_lists[w + 1])
            bad == {f \in shard : kind[f] = "unreadable"}
        IN  (/\ run = 1
             /\ wpc[w] = "done"
             /\ faults = 0
             /\ Cardinality(bad) = 1
             /\ \A f \in shard \ bad : kind[f] \in {"speech", "short"})
            => /\ Len(error_log[w]) = 1
               /\ error_log[w][1][1] \in bad
               /\ Len(processed_log[w]) = Cardinality(shard) - 1
               /\ Range(processed_log[w]) = shard \ bad

\* C7: an exception raised while a file is handled appends exactly one line
\* <<filename, message>> to the error log and the loop goes on with the next
\* file; a fresh shard of N files with one unreadable file and N - 1 files with
\* speech ends with one error-log line and N - 1 processed entries.
C7_PerFileErrorIsolation == [][C7_Caught]_vars /\ []C7_OneBadFile

\* a fresh shard of three files, one unreadable, has been completed
C7_Witness ==
    \E w \in Workers :
        /\ run = 1
        /\ wpc[w] = "done"
        /\ faults = 0
        /\ Len(sub_lists[w + 1]) = 3
        /\ Len(error_log[w]) = 1
        /\ Len(processed_log[w]) = 2
        /\ kind[sub_lists[w + 1][2]] = "unreadable"

\* C8: the pool hands one task to each shard and its map returns only when
\* every task has returned or raised; a task that raised stopped alone, and
\* every other task has handled all files of its shard by then.  (A main that
\* ended in parse_exclusions never made a pool.)
C8_PoolWaitsForAll ==
    (mainPc \in {"joined", "aborted"} /\ ExclusionsParsed) =>
        /\ Len(sub_lists) = num_processes
        /\ \A w \in Workers :
              /\ wpc[w] \in {"done", "failed"}
              /\ wpc[w] = "done" =>
                    /\ pos[w] = Len(wav_files[w]) + 1
                    /\ decoded[w] = Range(wav_files[w])
                    /\ Range(sub_lists[w + 1]) \subseteq processed_files[w] \cup decoded[w]

\* the map has re-raised one task's exception after its sibling handled the
\* two files of its own shard
C8_Witness ==
    /\ mainPc = "aborted"
    /\ \E v, w \in Workers :
          /\ wpc[v] = "failed"
          /\ wpc[w] = "done"
          /\ Len(sub_lists[w + 1]) = 2
          /\ Cardinality(decoded[w]) = 2

\* C11: the rows written for a file whose detector output is sorted and
\* non-overlapping have start < end and duration = end - start, ascend strictly
\* by start, and do not overlap (each row ends no later than the next begins).
C11_RowsWellFormed ==
    mpc = "filtered" =>
        /\ \A j \in 1..Len(rows) :
              /\ rows[j].start < rows[j].end
              /\ rows[j].duration = rows[j].end - rows[j].start
        /\ \A j, k \in 1..Len(rows) :
              j < k => /\ rows[j].start < rows[k].start
                       /\ rows[j].end <= rows[k].start

\* two rows are written: the first is the join of two detected intervals, the
\* second begins exactly where the threshold put the cut
C11_Witness ==
    /\ mpc = "filtered"
    /\ Len(utterances) = 3
    /\ Len(rows) = 2
    /\ rows[1].end = utterances[2].end
    /\ rows[1].duration > utterances[1].duration + utterances[2].duration
    /\ rows[2].start - rows[1].end = threshold


\* C12: no file named in the exclusion set is decoded (and so none reaches the
\* detector), and none is named in a processed, warning or error log or in a
\* segment CSV of any directory, whatever K and the corpus size.
C12_ExcludedNeverTouched ==
    \A f \in excl :
        /\ \A w \in Workers : f \notin decoded[w]
        /\ \A d \in Dirs :
              /\ LogEntries(d, f) = 0
              /\ RowsIn(d, f) = <<>>


\* the list a single worker (K = 1) iterates over, and what a fresh run with
\* K = 1 leaves in the consolidated logs and table
SoloList == IF Files # <<>> THEN Files ELSE corpus
SoloProcessed == {f \in Range(SoloList) : kind[f] \in {"speech", "short"}}
SoloWarning == {f \in Range(SoloList) : kind[f] = "nospeech"}
SoloRows == UNION {Range(RowsOf(f)) : f \in SoloProcessed}

\* the pipeline has run up to the merger on a log root that was empty, no two
\* of its workers having written to the same directory
FreshRunMerged ==
    /\ mainPc = "merged"
    /\ run = 1
    /\ faults = 0
    /\ Len(sub_lists) = num_processes
    /\ \A v, w \in Workers : v # w => log_folder[v] # log_folder[w]

\* C13: after a fresh pipeline run the consolidated processed-log line set,
\* warning-log line set and segment-row set are those of the run with K = 1,
\* for every worker count K: they do not depend on the partition.
C13_OutputIndependentOfK ==
    FreshRunMerged =>
        /\ Range(output["processed_files.log"]) = SoloProcessed
        /\ Range(output["warning_files.log"]) = SoloWarning
        /\ Range(output["speech_segments.csv"]) = SoloRows


NoDuplicates(seq) == \A i, j \in 1..Len(seq) : seq[i] = seq[j] => i = j

\* the rows of all segment CSVs under the log root, in the order read
AllRows == Concat([i \in 1..(Len(listing) + 1) |-> csv[(<<Root>> \o listing)[i]]])

FirstOccurrence(seq, x) == CHOOSE i \in 1..Len(seq) :
                              seq[i] = x /\ \A j \in 1..(i - 1) : seq[j] # x

\* C14: after the merger has run, each consolidated log holds exactly the
\* distinct lines of the logs of that name in all directories of the log root,
\* each once, and the consolidated table (and its columnar copy) holds exactly
\* the distinct rows of all segment CSVs, each once, in order of first
\* occurrence.
C14_ConsolidatedIsDedupedUnion ==
    mainPc = "merged" =>
        /\ \A name \in {"processed_files.log", "warning_files.log"} :
              /\ Range(output[name]) = UNION {Range(FileIn(d, name)) : d \in Dirs}
              /\ NoDuplicates(output[name])
        /\ LET table == output["speech_segments.csv"]
           IN  /\ Range(table) = UNION {Range(csv[d]) : d \in Dirs}
               /\ NoDuplicates(table)
               /\ \A i, j \in 1..Len(table) :
                     i < j => FirstOccurrence(AllRows, table[i])
                                < FirstOccurrence(AllRows, table[j])
               /\ output["speech_segments.parquet"] = table

\* two directories name the same file in their processed logs and hold the same
\* two rows; the consolidated log names the file once, the table has two rows
C14_Witness ==
    /\ mainPc = "merged"
    /\ \E d, e \in Dirs :
          /\ d # e
          /\ Range(processed_log[d]) \cap Range(processed_log[e]) # {}
          /\ Len(csv[d]) = 2
          /\ csv[e] = csv[d]
          /\ output["speech_segments.csv"] = csv[d]
          /\ Len(output["processed_files.log"]) = 1


\* C15: after the merger has run, the output directory holds a consolidated
\* error log, and every line of every error log under the log root is in it.
C15_ErrorLogConsolidated ==
    mainPc = "merged" =>
        \A d \in Dirs : \A i \in 1..Len(error_log[d]) :
            /\ "error_files.log" \in DOMAIN output
            /\ error_log[d][i] \in Range(output["error_files.log"])


\* no directory under the log root holds a log line or a CSV row
NoEntries ==
    \A d \in Dirs :
        /\ processed_log[d] = <<>>
        /\ warning_log[d] = <<>>
        /\ error_log[d] = <<>>
        /\ csv[d] = <<>>

\* C16: run on an existing log root without shard sub-directories, or whose
\* logs and CSVs hold no entries, the merger does not raise, and it leaves empty
\* consolidated logs and an empty consolidated table.
C16_EmptyInputsMerge ==
    (root_exists /\ NoEntries) =>
        /\ mainPc # "merge_failed"
        /\ mainPc = "merged" =>
              /\ output["processed_files.log"] = <<>>
              /\ output["warning_files.log"] = <<>>
              /\ output["speech_segments.csv"] = <<>>


\* this step belongs to a call of the output merger
MergerStep ==
    \/ mainPc = "retrieved"
    \/ mainPc' = "retrieved"
    \/ mainPc # "merge_failed" /\ mainPc' = "merge_failed"

C17_ShardDataUntouched ==
    MergerStep => UNCHANGED <<processed_log, warning_log, error_log, csv, csv_files>>

C17_SecondRunSame ==
    (mainPc = "retrieved" /\ merger_runs = 1 /\ merger_runs' = 2) =>
        /\ \A name \in {"processed_files.log", "warning_files.log"} :
              Range(output'[name]) = Range(output[name])
        /\ output'["speech_segments.csv"] = output["speech_segments.csv"]
        /\ output'["speech_segments.parquet"] = output["speech_segments.parquet"]
        /\ DOMAIN output' = DOMAIN output

\* C17: no step of the output merger changes a processed, warning or error log
\* or a segment CSV under the log root, and a second run of the merger over the
\* same shard data leaves the same consolidated logs (as line sets) and the same
\* consolidated table as the first.
C17_MergerReadOnlyRerunnable ==
    [][C17_ShardDataUntouched /\ C17_SecondRunSame]_vars

\* the merger has run twice over two shard directories that hold rows, log
\* lines and an error line
C17_Witness ==
    /\ mainPc = "merged"
    /\ merger_runs = 2
    /\ Len(output["speech_segments.csv"]) >= 3
    /\ Len(output["processed_files.log"]) >= 2
    /\ \E d, e \in ShardDirs : d # e /\ csv[d] # <<>> /\ csv[e] # <<>>
    /\ \E d \in Dirs : error_log[d] # <<>>


\* the files named in a warning log: the detector found no speech in them
WarnedFiles == UNION {Range(warning_log[d]) : d \in Dirs}

\* C18: the count "Number of Files Without Speech" of the written report is the
\* number of files in which the detector found no speech (the warning case); a
\* file that ended with an error-log line is not counted.  Stated for a fresh
\* run over a folder without excluded files in which every file with speech
\* keeps a segment.
C18_WithoutSpeechIsWarningCount ==
    (/\ mainPc = "reported"
     /\ report.outcome = "written"
     /\ run = 1
     /\ faults = 0
     /\ excl = {}
     /\ \A f \in Range(corpus) : kind[f] # "short")
    => report.files_without_speech = Cardinality(WarnedFiles)


\* C19: when the segment table is empty or the total duration of the folder is
\* zero (every file being measurable), the report call does not raise; it
\* reports that no valid segments were found and computes no percentage.
C19_DegenerateDataHandled ==
    (/\ report # NoReport
     /\ \A i \in 1..Len(rp_folder) : rp_folder[i] # WaveError
     /\ rp_table = <<>> \/ SumSeq(rp_folder) = 0)
    => report.outcome = "warned"


\* the exclusions argument cannot be parsed
BadExclusions == exclusions \in {"unreadable", "unsupported"}

C20_NothingStarted ==
    BadExclusions =>
        /\ mainPc \notin {"pool", "joined"}
        /\ sub_lists = <<>>
        /\ \A w \in Workers : wpc[w] = "idle" /\ decoded[w] = {}
        /\ csv_files = {}
        /\ NoEntries

C20_DiskUntouched ==
    BadExclusions => UNCHANGED <<processed_log, warning_log, error_log, csv,
                                 csv_files, root_exists>>

\* C20: when an exclusion source cannot be read or the argument is of an
\* unsupported kind, main ends with the exception: the folder is never listed
\* and split, no worker is started, and no directory, log or CSV under the log
\* root is created or changed.
C20_ExclusionFailureAbortsFirst == []C20_NothingStarted /\ [][C20_DiskUntouched]_vars

\* a run over a folder of three files has ended on an unreadable exclusion file
C20_Witness ==
    /\ exclusions = "unreadable"
    /\ mainPc = "aborted"
    /\ Len(corpus) = 3
    /\ num_processes = 2
    /\ ~root_exists


----------------------------------------------------------------------------
\* C21: in every report that was written, the printed "Percentage of Speech"
\* is 100 x (the sum of the durations of the table's rows) / (the sum of the
\* durations of the folder's files) to two decimals, the printed "Percentage
\* of Non-Speech" is 100 minus that quotient to two decimals, and a folder of
\* 3 files totalling 30 s with a table totalling 9 s prints 30.00%
TableSeconds ==
    SumSeq([i \in 1..Len(rp_table) |-> rp_table[i].duration \div SAMPLE_RATE])

FolderSeconds == SumSeq([i \in 1..Len(rp_folder) |-> rp_folder[i] \div SAMPLE_RATE])

Abs(x) == IF x < 0 THEN -x ELSE x

\* p is a / b in hundredths of a percent, to the nearest hundredth
NearestHundredth(p, a, b) == 2 * Abs(p * b - 10000 * a) <= b

ExampleReport ==
    /\ Len(rp_folder) = 3
    /\ FolderSeconds = 30
    /\ TableSeconds = 9

C21_SpeechPercentage ==
    report.outcome = "written" =>
        /\ NearestHundredth(report.speech_percentage, TableSeconds, FolderSeconds)
        /\ NearestHundredth(report.non_speech_percentage,
                            FolderSeconds - TableSeconds, FolderSeconds)
        /\ ExampleReport => /\ report.speech_percentage = 3000
                            /\ report.non_speech_percentage = 7000

C21_Witness ==
    /\ report.outcome = "written"
    /\ ExampleReport
    /\ report.speech_percentage = 3000


----------------------------------------------------------------------------
\* C24: on every sorted non-overlapping input and every threshold, two
\* consecutive intervals of merge_segments' output are at least the threshold
\* apart, and merge_segments with the same threshold on that output returns it
\* unchanged
C24_MergeIdempotent ==
    mpc # "start" =>
        /\ \A i \in 2..Len(merged) :
              merged[i].start - merged[i - 1].end >= threshold
        /\ merge_segments(merged, threshold) = merged

\* an input of three intervals of which two were joined, and an output of two
\* intervals the second pass has to compare
C24_Witness ==
    /\ mpc = "merged"
    /\ Len(utterances) = 3
    /\ Len(merged) = 2
    /\ merged[2].start - merged[1].end >= threshold
    /\ threshold > 0
    /\ merge_segments(merged, threshold) = merged


----------------------------------------------------------------------------
\* C22: a worker that has entered its per-file loop ends the loop and
\* returns, unless its run is killed; by then every file of its list that the
\* resume check left in (the i-th of wav_files) was passed by the loop and is
\* recorded in the processed, the warning or the error log of the worker's
\* folder, whatever the outcome of the files before it
Terminal(w, f) ==
    LET d == log_folder[w]
    IN  \/ f \in Range(processed_log[d])
        \/ f \in Range(warning_log[d])
        \/ \E j \in 1..Len(error_log[d]) : error_log[d][j][1] = f

Reached(w, i) ==
    /\ w \in Workers
    /\ i <= Len(wav_files[w])
    /\ pos[w] > i
    /\ wav_files[w][i] \in decoded[w]
    /\ Terminal(w, wav_files[w][i])

InLoop(w) ==
    /\ w \in Workers
    /\ wpc[w] \in {"loop", "emit"}

\* the processes of the run were killed
Killed(w) ==
    /\ w \in Workers
    /\ wpc[w] = "idle"

Returned(w) ==
    /\ w \in Workers
    /\ wpc[w] = "done"
    /\ \A i \in 1..Len(wav_files[w]) : Reached(w, i)

C22_WorkerTerminates ==
    \A w \in 0..(MaxWorkers - 1) : InLoop(w) ~> (Returned(w) \/ Killed(w))

\* a resumed worker that skipped a processed file, logged an error or a
\* warning for the first file left, went on to mark a later file processed
\* and returned
C22_Witness ==
    \E w \in Workers :
        /\ run = MaxRuns
        /\ wpc[w] = "done"
        /\ Len(wav_files[w]) >= 2
        /\ Len(wav_files[w]) < Len(FileListOf(w))
        /\ kind[wav_files[w][1]] \in {"unreadable", "nospeech"}
        /\ kind[wav_files[w][2]] = "speech"
        /\ wav_files[w][2] \in Range(processed_log[log_folder[w]])
        /\ \A i \in 1..Len(wav_files[w]) : Terminal(w, wav_files[w][i])


----------------------------------------------------------------------------
\* C23: the step in which an interrupt reaches a worker inside its per-file
\* loop takes the worker out of the call and leaves every log and every
\* segment CSV as it was, rows of the interrupted file included; from then on
\* the worker stays out, passes no further file to the decoder and does not
\* move in its list, so that no file after the interrupted one was ever
\* handled by it, and the logs and the CSV of a folder it alone writes to
\* stay as they were
WrittenSoFar == <<processed_log, warning_log, error_log, csv, csv_files>>

\* the files of w's list after the one at pos[w]
FilesAfter(w) == {wav_files[w][i] : i \in (pos[w] + 1)..Len(wav_files[w])}

\* what the log folder of worker w holds
FolderOf(w) ==
    LET d == log_folder[w]
    IN  <<processed_log[d], warning_log[d], error_log[d], csv[d]>>

\* no other call of the run writes to the log folder of worker w
Alone(w) == \A v \in Workers \ {w} : LogFolderOf(v) # log_folder[w]

InterruptArrives(w) == w \notin interrupts /\ w \in interrupts'

AfterInterrupt(w) == w \in interrupts /\ w \in interrupts'

C23_InterruptStep ==
    \A w \in Workers :
        /\ InterruptArrives(w) =>
              /\ wpc[w] \in {"loop", "emit"}
              /\ wpc'[w] = "exited"
              /\ WrittenSoFar' = WrittenSoFar
              /\ decoded'[w] = decoded[w]
              /\ pos'[w] = pos[w]
              /\ FilesAfter(w) \cap decoded[w] = {}
        /\ AfterInterrupt(w) =>
              /\ wpc'[w] = "exited"
              /\ decoded'[w] = decoded[w]
              /\ pos'[w] = pos[w]
              /\ pending'[w] = <<>>
              /\ wav_files'[w] = wav_files[w]
              /\ Alone(w) => FolderOf(w)' = FolderOf(w)

C23_InterruptExits == [][C23_InterruptStep]_vars

\* a worker interrupted while it wrote the rows of a file: the file is marked
\* processed, some of its rows are in the CSV, files of its list are left,
\* and another worker has gone on to return
C23_Witness ==
    \E w \in Workers :
        /\ w \in interrupts
        /\ wpc[w] = "exited"
        /\ pos[w] < Len(wav_files[w])
        /\ LET f == CurrentFile(w)
               d == log_folder[w]
           IN  /\ f \in Range(processed_log[d])
               /\ RowsIn(d, f) # <<>>
               /\ Len(RowsIn(d, f)) < Len(RowsOf(f))
        /\ FilesAfter(w) \cap decoded[w] = {}
        /\ \E v \in Workers : v # w /\ wpc[v] = "done" /\ decoded[v] # {}

====
